---- MODULE Spec2Model ----
(***************************************************************************)
(* A model of lib/nettime.js: the orchestrator nettime(), one probe        *)
(* (makeSingleRequest) with its lifecycle observers, and the output file.  *)
(*                                                                         *)
(* JavaScript runs one handler at a time.  Every action below is one       *)
(* handler (one macrotask) run to completion.  The continuation of an      *)
(* `await` is a microtask: it runs before any other handler, so while the  *)
(* orchestrator has a settled probe to resume on (ResumePending) no        *)
(* transport or file-system handler is enabled.                            *)
(***************************************************************************)
EXTENDS Integers, Sequences, FiniteSets

VARIABLES
  options,    \* the caller's options object (appendToOutput is mutated)
  pc,         \* where nettime() is suspended
  i,          \* the loop index of nettime()
  results,    \* the local array `results` of nettime()
  outcome,    \* how the promise returned by nettime() settled
  run,        \* number of nettime() calls made with this options object
  waits,      \* history: the wait(ms) calls of the current run
  probes,     \* the closure state of each makeSingleRequest call of the run
  file,       \* the content of the output file
  writes,     \* the writeFile calls whose callback has not run yet
  writeLog,   \* history: every writeFile call, with its flag
  exitCode,   \* process.exitCode
  failures,   \* history: the writeFile calls that failed
  body,       \* the number of chunks the requested resource is served in
  average     \* the caller's computeAverageTimings(results) and its outcome

vars == <<options, pc, i, results, outcome, run, waits, probes, file, writes,
          writeLog, exitCode, failures, body, average>>

(************************* bounds of the model *****************************)
MaxCount == 2      \* largest requestCount
MaxRuns == 2       \* nettime() calls sharing one options object
MaxChunks == 2     \* body chunks of one response
MaxResults == 3    \* longest array of Results given to the averaging fold
MaxFailures == 1   \* writeFile calls that fail

Probes == 1..MaxCount

(************************* the inputs **************************************)
HttpVersions == {"1.0", "1.1", "2.0"}
Schemes == {"http:", "https:"}
\* requestDelay: <<>> is "not given", <<ms>> a given number of milliseconds
RequestDelays == {<<>>, <<250>>}

NoResult == [probe |-> 0, hasResponse |-> FALSE, headers |-> FALSE,
             hasBody |-> FALSE, response |-> <<>>]

\* the content the output file holds before the first run
OldFile == <<[kind |-> "old", probe |-> 0, n |-> 0]>>

Phases == {"socketOpen", "dnsLookup", "tcpConnection", "tlsHandshake",
           "firstByte", "contentTransfer", "socketClose"}


(************************* one probe: makeSingleRequest ********************)
\* the closure of one makeSingleRequest call before anything has run
FreshProbe ==
  [started   |-> FALSE,      \* makeSingleRequest was called
   start     |-> FALSE,      \* `start = process.hrtime()` was taken
   request   |-> FALSE,      \* the request (and HTTP/2 client) was created
   socket    |-> FALSE,      \* listenToSocket ran
   stage     |-> "none",     \* last lifecycle signal of the normal sequence
   failed    |-> FALSE,      \* the transport emitted 'error' or was aborted
   aborted   |-> FALSE,      \* request.abort() was called
   timedOut  |-> FALSE,      \* the 'timeout' handler ran
   emitted   |-> "none",     \* history: the error the transport emitted
   lookedUp  |-> FALSE,      \* history: the socket emitted 'lookup'
   secured   |-> FALSE,      \* history: the socket emitted 'secureConnect'
   sockClose |-> FALSE,      \* the socket emitted 'close'
   cliClose  |-> "none",     \* client.close(callback): none, armed, called
   eof       |-> FALSE,      \* response.read() has returned null
   clock     |-> 0,          \* the last value getTiming() returned
   timings   |-> [ph \in Phases |-> 0],   \* 0: the phase is absent
   hasData   |-> FALSE,      \* `data` is a Buffer (not false/undefined)
   data      |-> <<>>,       \* the Buffer `data`
   received  |-> <<>>,       \* history: the body chunks the response delivered
   response  |-> FALSE,      \* `response` is set
   firstByte |-> FALSE,      \* the flag `firstByte`
   firstByteLog |-> <<>>,    \* history: Len(data) at each recording of firstByte
   nwrites   |-> 0,          \* history: writeFile calls of this probe
   target    |-> <<>>,       \* history: the request target sent to the server
   writeError |-> FALSE,     \* history: a writeFile callback got an error
   promise   |-> "pending",  \* pending, resolved, rejected
   error     |-> "none",     \* the code of the rejection
   result    |-> NoResult]   \* the value of the resolution

\* `let socketClosed` is declared and tested, and never assigned
socketClosed == FALSE

\* `let timeoutHandler` is declared and tested, and never assigned
timeoutHandler == FALSE

\* a getTiming() that passes its operands to getDuration the other way round
SetTimingSwapped(pr, ph) ==
  [pr EXCEPT !.clock = @ + 1, !.timings[ph] = 0 - (pr.clock + 1)]

\* getTiming(), stored under a phase name (plain assignment: it overwrites)
SetTiming(pr, ph) ==
  [pr EXCEPT !.clock = @ + 1, !.timings[ph] = pr.clock + 1]

\* resolve(value) and reject(error) of the probe's promise: only the first
\* settlement has an effect
Resolve(pr, value) ==
  IF pr.promise = "pending"
  THEN [pr EXCEPT !.promise = "resolved", !.result = value]
  ELSE pr

Reject(pr, code) ==
  IF pr.promise = "pending"
  THEN [pr EXCEPT !.promise = "rejected", !.error = code]
  ELSE pr

Prolog(p) == [kind |-> "prolog", probe |-> p, n |-> 0]
Chunk(p, n) == [kind |-> "chunk", probe |-> p, n |-> n]

\* a returnResult that attaches the body whenever `data` is a Buffer
returnResultAnyData(p, pr) ==
  Resolve(pr, [probe       |-> p,
               hasResponse |-> pr.response,
               headers     |-> pr.response /\ options.includeHeaders,
               hasBody     |-> pr.hasData,
               response    |-> IF pr.hasData THEN pr.data ELSE <<>>])

\* the Result: its optional fields are present (TRUE) or missing (FALSE)
returnResult(p, pr) ==
  Resolve(pr, [probe       |-> p,
               hasResponse |-> pr.response,
               headers     |-> pr.response /\ options.includeHeaders,
               hasBody     |-> options.returnResponse /\ pr.hasData,
               response    |-> IF options.returnResponse /\ pr.hasData
                               THEN pr.data ELSE <<>>])

prependOutputHeader(p, pr) ==
  [pr EXCEPT !.data = <<Prolog(p)>> \o pr.data]

\* the flag writeFile is called with
WriteFlag(appendToOutput) == IF appendToOutput THEN "a" ELSE "w"

\* writeOutputFile up to the call of writeFile; the callback is WriteDone
writeOutputFile(p, pr) ==
  LET pr1 == IF options.includeHeaders /\ pr.response
             THEN prependOutputHeader(p, pr) ELSE pr
      flag == WriteFlag(options.appendToOutput)
      pr2 == [pr1 EXCEPT !.nwrites = @ + 1]
  IN /\ probes' = [probes EXCEPT ![p] = pr2]
     /\ writes' = writes \cup {[probe |-> p, n |-> pr2.nwrites, flag |-> flag,
                                data |-> pr2.data]}
     /\ writeLog' = Append(writeLog, [run |-> run, probe |-> p,
                                      n |-> pr2.nwrites, flag |-> flag])

\* the guard of checkSocketClosed
SocketAlreadyClosed(pr) == socketClosed

\* a checkSocketClosed that starts the write and returns the Result at
\* once, without `.then`
checkSocketClosedNoWait(p, pr0) ==
  IF SocketAlreadyClosed(pr0)
  THEN /\ probes' = [probes EXCEPT ![p] = pr0]
       /\ UNCHANGED <<writes, writeLog>>
  ELSE LET pr == SetTiming(pr0, "socketClose") IN
       IF options.outputFile /\ pr.hasData
       THEN writeOutputFile(p, returnResult(p, pr))
       ELSE /\ probes' = [probes EXCEPT ![p] = returnResult(p, pr)]
            /\ UNCHANGED <<writes, writeLog>>

checkSocketClosed(p, pr0) ==
  IF SocketAlreadyClosed(pr0)
  THEN /\ probes' = [probes EXCEPT ![p] = pr0]
       /\ UNCHANGED <<writes, writeLog>>
  ELSE LET pr == SetTiming(pr0, "socketClose") IN
       IF options.outputFile /\ pr.hasData
       THEN writeOutputFile(p, pr)
       ELSE /\ probes' = [probes EXCEPT ![p] = returnResult(p, pr)]
            /\ UNCHANGED <<writes, writeLog>>

\* a scheme test that compares with the wrong scheme
InsecureSchemeWrongScheme(httpVersion, scheme) ==
  httpVersion = "2.0" /\ scheme # "http:"

\* HTTP/2 is refused for any scheme but https:
InsecureScheme(httpVersion, scheme) ==
  httpVersion = "2.0" /\ scheme # "https:"

\* The URL is scheme, host, the path Pathname and a query string that is
\* empty or not; a string is the sequence of its parts, `+` is \o.
Pathname == <<"/p">>

\* new URL(url) and the parameters derived from it; pathname is never
\* empty, so `path` is pathname + search
parseURL(opt, headers) ==
  [protocol |-> opt.scheme, pathname |-> Pathname, search |-> opt.search,
   path |-> IF Pathname # <<>> THEN Pathname \o opt.search ELSE <<>>,
   headers |-> headers]

\* `options.headers || {}`: the names of the headers object
HeaderNames(opt) == IF opt.headers = <<>> THEN {} ELSE opt.headers[1]

setCredentials(headers, credentials) ==
  IF credentials THEN headers \cup {"authorization"} ELSE headers

setContentType(headers, data) ==
  IF data THEN headers \cup {"content-type", "content-length"} ELSE headers

\* getParameters: the URL's parameters and the headers object after
\* setCredentials and setContentType have assigned to it
getParameters(opt) ==
  LET parameters == parseURL(opt, HeaderNames(opt))
  IN [parameters EXCEPT
        !.headers = setContentType(setCredentials(@, opt.credentials),
                                   opt.data)]

\* the request target: options.path for http.request, the pseudo-header
\* ':path' for HTTP/2
RequestTarget(httpVersion, parameters) ==
  IF httpVersion = "2.0" THEN parameters.pathname ELSE parameters.path

\* the names of the headers object once the request has been made:
\* makeHTTP2Request assigns ':method' and ':path' to it
RequestHeaders(opt) ==
  IF opt.httpVersion = "2.0" /\ ~InsecureScheme(opt.httpVersion, opt.scheme)
  THEN getParameters(opt).headers \cup {":method", ":path"}
  ELSE getParameters(opt).headers

\* the caller's options object after makeSingleRequest(opt): the headers
\* object is the caller's own when options.headers was given
OptionsAfterRequest(opt) ==
  IF opt.headers = <<>> THEN opt
  ELSE [opt EXCEPT !.headers = <<RequestHeaders(opt)>>]

\* the synchronous body of makeSingleRequest: the executor of the promise.
\* A throw inside the executor rejects the promise.
makeSingleRequest(opt) ==
  LET called == [FreshProbe EXCEPT !.started = TRUE,
                   !.hasData = opt.outputFile \/ opt.returnResponse]
  IN IF InsecureScheme(opt.httpVersion, opt.scheme)
     THEN Reject(called, "ERR_INSECURE_SCHEME")
     ELSE LET made == [called EXCEPT !.start = TRUE, !.request = TRUE,
                         !.stage = "created",
                         !.target = RequestTarget(opt.httpVersion,
                                                  getParameters(opt))]
          IN IF opt.httpVersion = "2.0"
             \* makeHTTP2Request: listenToSocket(client.socket) at once
             THEN [SetTiming(made, "socketOpen") EXCEPT
                     !.socket = TRUE, !.stage = "socket"]
             \* makeHTTP1Request: listenToSocket on the 'socket' event
             ELSE made

(************************* the transport's lifecycle signals ***************)
\* The continuation of nettime()'s await is due: it runs before any handler.
ResumePending ==
  pc \in {"await", "single"} /\ probes[i + 1].promise # "pending"

\* The transport delivers its signals in its normal sequence socket, lookup,
\* connect, secureConnect, response, readable.., end, close; an 'error' or a
\* 'timeout' can cut the sequence anywhere before the connection has closed,
\* and then only the close signals follow.  A response signals 'readable'
\* for each chunk and once more at the end of its data, where read()
\* returns null.  The socket signals 'lookup' when the URL names a host and
\* not when it holds an IP address; the server answers every probe of a run
\* with the same resource.
Usable(pr) == pr.request /\ ~pr.failed /\ ~pr.sockClose /\ pr.cliClose # "called"

CanSocket(pr) == Usable(pr) /\ pr.stage = "created"
CanLookup(pr) == Usable(pr) /\ pr.stage = "socket" /\ options.host = "name"
CanConnect(pr) ==
  Usable(pr) /\ pr.stage = (IF options.host = "name" THEN "lookup" ELSE "socket")
CanSecureConnect(pr) ==
  Usable(pr) /\ pr.stage = "connect" /\ options.scheme = "https:"
CanResponse(pr) ==
  Usable(pr) /\ pr.stage = (IF options.scheme = "https:" THEN "secure" ELSE "connect")
CanReadable(pr) == Usable(pr) /\ pr.stage = "response" /\ ~pr.eof
CanEnd(pr) == Usable(pr) /\ pr.stage = "response" /\ pr.eof
CanSocketClose(pr) ==
  pr.request /\ pr.socket /\ ~pr.sockClose /\ (pr.stage = "end" \/ pr.failed)
CanClientClosed(pr) == pr.request /\ pr.cliClose = "armed"
CanError(pr) == Usable(pr)
CanTimeout(pr) == Usable(pr) /\ pr.socket /\ options.timeout

\* no lifecycle signal of the probe is outstanding
Quiet(pr) ==
  ~(CanSocket(pr) \/ CanLookup(pr) \/ CanConnect(pr) \/ CanSecureConnect(pr)
    \/ CanResponse(pr) \/ CanReadable(pr) \/ CanEnd(pr) \/ CanSocketClose(pr)
    \/ CanClientClosed(pr) \/ CanError(pr) \/ CanTimeout(pr))

\* An HTTP/2 connection that closes after the stream has ended delivers the
\* socket's 'close' and the callback of client.close() in one turn of the
\* event loop: once one of them has run, the other runs before any other
\* handler or continuation.
HalfClosed(pr) ==
  pr.request /\ pr.cliClose # "none" /\ (pr.sockClose # (pr.cliClose = "called"))

InTurn == \E p \in Probes : HalfClosed(probes[p])

\* an ordinary handler can run
Idle == ~ResumePending /\ ~InTurn

AllQuiet == writes = {} /\ \A p \in Probes : Quiet(probes[p])

orch == <<options, pc, i, results, outcome, run, waits, body,
                 average>>

\* a handler that touches only the closure of probe p
OnlyProbe(p, pr) ==
  /\ probes' = [probes EXCEPT ![p] = pr]
  /\ UNCHANGED <<orch, file, writes, writeLog, exitCode, failures>>

\* request.on('socket', listenToSocket), HTTP/1.x
SocketAssigned(p) ==
  /\ Idle /\ CanSocket(probes[p])
  /\ OnlyProbe(p, [SetTiming(probes[p], "socketOpen") EXCEPT
                     !.socket = TRUE, !.stage = "socket"])

\* socket.on('lookup')
Lookup(p) ==
  /\ Idle /\ CanLookup(probes[p])
  /\ OnlyProbe(p, [SetTiming(probes[p], "dnsLookup") EXCEPT
                     !.stage = "lookup", !.lookedUp = TRUE])

\* a 'connect' listener that stores its time under the name of the
\* 'secureConnect' listener's phase
ConnectAsHandshake(p) ==
  /\ Idle /\ CanConnect(probes[p])
  /\ OnlyProbe(p, [SetTiming(probes[p], "tlsHandshake") EXCEPT !.stage = "connect"])

\* socket.on('connect')
Connect(p) ==
  /\ Idle /\ CanConnect(probes[p])
  /\ OnlyProbe(p, [SetTiming(probes[p], "tcpConnection") EXCEPT !.stage = "connect"])

\* socket.on('secureConnect')
SecureConnect(p) ==
  /\ Idle /\ CanSecureConnect(probes[p])
  /\ OnlyProbe(p, [SetTiming(probes[p], "tlsHandshake") EXCEPT
                     !.stage = "secure", !.secured = TRUE])

\* the response callback (HTTP/1.x) or the 'response' event (HTTP/2)
Response(p) ==
  /\ Idle /\ CanResponse(probes[p])
  /\ OnlyProbe(p, [probes[p] EXCEPT !.response = TRUE, !.stage = "response"])

\* a checkFirstByte without its flag
checkFirstByteUnguarded(pr) ==
  [SetTiming(pr, "firstByte") EXCEPT
     !.firstByte = TRUE, !.firstByteLog = Append(@, Len(pr.data))]

checkFirstByte(pr) ==
  IF ~pr.firstByte
  THEN [SetTiming(pr, "firstByte") EXCEPT
          !.firstByte = TRUE, !.firstByteLog = Append(@, Len(pr.data))]
  ELSE pr

\* response.on('readable'): response.read() returns a chunk or null
Readable(p, hasChunk) ==
  /\ Idle /\ CanReadable(probes[p])
  /\ hasChunk <=> Len(probes[p].received) < body
  /\ LET pr == checkFirstByte(probes[p])
         chunk == Chunk(p, Len(pr.received) + 1)
     IN OnlyProbe(p, [pr EXCEPT
          !.eof = ~hasChunk,
          !.received = IF hasChunk THEN Append(@, chunk) ELSE @,
          !.data = IF pr.hasData /\ hasChunk THEN Append(@, chunk) ELSE @])

\* response.on('end'); for HTTP/2 also client.close(checkSocketClosed)
End(p) ==
  /\ Idle /\ CanEnd(probes[p])
  /\ OnlyProbe(p, [SetTiming(probes[p], "contentTransfer") EXCEPT
                     !.stage = "end",
                     !.cliClose = IF options.httpVersion = "2.0"
                                  THEN "armed" ELSE @])

\* socket.on('close', checkSocketClosed)
SocketClose(p) ==
  /\ CanSocketClose(probes[p]) /\ (HalfClosed(probes[p]) \/ Idle)
  /\ checkSocketClosed(p, [probes[p] EXCEPT !.sockClose = TRUE])
  /\ UNCHANGED <<orch, file, exitCode, failures>>

\* the callback given to client.close() of the HTTP/2 client
ClientClosed(p) ==
  /\ CanClientClosed(probes[p]) /\ (HalfClosed(probes[p]) \/ Idle)
  /\ checkSocketClosed(p, [probes[p] EXCEPT !.cliClose = "called"])
  /\ UNCHANGED <<orch, file, exitCode, failures>>

\* the errors a transport emits: each stands for one error object
TransportErrors ==
  {"ENOTFOUND", "ECONNREFUSED", "CERT_HAS_EXPIRED", "ECONNRESET"}

\* The error the transport can emit depends on how far the connection has
\* come: the lookup fails, the connection is refused, the TLS handshake
\* fails, or the established connection is reset.
ErrorsAt(pr) ==
  IF pr.stage \in {"created", "socket"} /\ options.host = "name"
  THEN {"ENOTFOUND"}
  ELSE IF pr.stage \in {"created", "socket", "lookup"}
  THEN {"ECONNREFUSED"}
  ELSE IF pr.stage = "connect" /\ options.scheme = "https:"
  THEN {"CERT_HAS_EXPIRED"}
  ELSE {"ECONNRESET"}

\* an 'error' listener that rejects with an error of its own
OnErrorWrapped(pr, err) ==
  Reject([pr EXCEPT !.failed = TRUE, !.emitted = err], "ETRANSPORT")

\* the 'error' listener is reject itself: it is called with the emitted error
OnError(pr, err) ==
  Reject([pr EXCEPT !.failed = TRUE, !.emitted = err], err)

\* .on('error', reject) of the request or of the HTTP/2 client
TransportError(p, err) ==
  /\ Idle /\ CanError(probes[p]) /\ err \in ErrorsAt(probes[p])
  /\ OnlyProbe(p, OnError(probes[p], err))

\* a 'timeout' handler that aborts and leaves the rejection to the 'abort'
\* handler
OnTimeoutAbortOnly(pr) ==
  LET aborted == [pr EXCEPT !.timedOut = TRUE, !.aborted = TRUE, !.failed = TRUE]
  IN IF timeoutHandler THEN Reject(aborted, "ETIMEDOUT") ELSE aborted

\* the 'timeout' handler: abort, reject; then the 'abort' handler, which
\* rejects only if timeoutHandler is set
OnTimeout(pr) ==
  LET aborted == [pr EXCEPT !.timedOut = TRUE, !.aborted = TRUE, !.failed = TRUE]
      rejected == Reject(aborted, "ETIMEDOUT")
  IN IF timeoutHandler THEN Reject(rejected, "ETIMEDOUT") ELSE rejected

Timeout(p) ==
  /\ Idle /\ CanTimeout(probes[p])
  /\ OnlyProbe(p, OnTimeout(probes[p]))

(************************* the output file *********************************)
\* the callback of writeFile, then `.then(returnResult)` when it resolves.
\* The file changes when the write completes.
WriteDone(w, ok) ==
  /\ Idle /\ w \in writes
  /\ ~ok => failures < MaxFailures
  /\ failures' = IF ok THEN failures ELSE failures + 1
  /\ writes' = writes \ {w}
  /\ file' = IF ~ok THEN file
             ELSE IF w.flag = "w" THEN w.data ELSE file \o w.data
  /\ LET pr == [probes[w.probe] EXCEPT !.writeError = @ \/ ~ok] IN
     IF ok
     THEN /\ probes' = [probes EXCEPT ![w.probe] = returnResult(w.probe, pr)]
          /\ UNCHANGED exitCode
     ELSE IF options.failOnOutputFileError = FALSE
          THEN /\ exitCode' = 2
               /\ probes' = [probes EXCEPT ![w.probe] = returnResult(w.probe, pr)]
          ELSE /\ probes' = [probes EXCEPT ![w.probe] = Reject(pr, "EWRITE")]
               /\ UNCHANGED exitCode
  /\ UNCHANGED <<orch, writeLog>>

(************************* the orchestrator: nettime() *********************)
Pending == [state |-> "pending", error |-> "none", isArray |-> FALSE,
            results |-> <<>>]

\* `if (requestDelay)`: undefined and 0 are falsy
Truthy(requestDelay) == requestDelay # <<>> /\ requestDelay[1] # 0

\* a loop condition that stops one iteration early
LoopContinuesOneShort(index, requestCount) == index < requestCount - 1

\* the loop condition `i < requestCount`
LoopContinues(index, requestCount) == index < requestCount

\* an await that swallows the rejection
AwaitThrowsNever(pr) == FALSE

\* `await makeSingleRequest(options)` throws when the promise is rejected
AwaitThrows(pr) == pr.promise = "rejected"

\* a test that takes one request for a run of requests
SeveralRequestsFromOne(requestCount) == requestCount >= 1

\* `if (requestCount > 1)`: false for 1 and for undefined
SeveralRequests(requestCount) == requestCount > 1

\* nettime(options) up to its first suspension
nettime ==
  /\ run' = run + 1
  /\ i' = 0
  /\ results' = <<>>
  /\ waits' = <<>>
  /\ outcome' = Pending
  /\ probes' = [p \in Probes |->
                  IF p = 1 THEN makeSingleRequest(options) ELSE FreshProbe]
  /\ pc' = IF SeveralRequests(options.requestCount) THEN "await" ELSE "single"
  /\ options' = OptionsAfterRequest(options)
  /\ UNCHANGED <<file, writes, writeLog, exitCode, failures, body, average>>

\* the caller's first call
CallNettime ==
  /\ pc = "idle"
  /\ nettime

\* The caller calls again with the same options object, once the earlier
\* run has settled and its connections and writes have finished.
CallAgain ==
  /\ pc \in {"resolved", "rejected"} /\ run < MaxRuns /\ AllQuiet
  /\ nettime

\* the end of one loop iteration, from `options.appendToOutput = true` to
\* the next suspension or the return
EndOfIteration(res) ==
  /\ options' = IF LoopContinues(i + 1, options.requestCount)
                THEN OptionsAfterRequest([options EXCEPT !.appendToOutput = TRUE])
                ELSE [options EXCEPT !.appendToOutput = TRUE]
  /\ i' = i + 1
  /\ results' = res
  /\ IF LoopContinues(i + 1, options.requestCount)
     THEN /\ probes' = [probes EXCEPT ![i + 2] =
                          makeSingleRequest([options EXCEPT
                                               !.appendToOutput = TRUE])]
          /\ pc' = "await"
          /\ UNCHANGED outcome
     ELSE /\ pc' = "resolved"
          /\ outcome' = [state |-> "resolved", error |-> "none",
                         isArray |-> TRUE, results |-> res]
          /\ UNCHANGED probes

\* the continuation of `await makeSingleRequest(options)` in the loop
Resume ==
  /\ pc = "await" /\ probes[i + 1].promise # "pending" /\ ~InTurn
  /\ IF AwaitThrows(probes[i + 1])
     THEN /\ pc' = "rejected"
          /\ outcome' = [state |-> "rejected", error |-> probes[i + 1].error,
                         isArray |-> FALSE, results |-> <<>>]
          /\ UNCHANGED <<options, i, results, waits, probes>>
     ELSE LET res == Append(results, probes[i + 1].result) IN
          IF Truthy(options.requestDelay)
          THEN /\ pc' = "delay"
               /\ results' = res
               /\ waits' = Append(waits, [after |-> i + 1,
                                          ms |-> options.requestDelay[1]])
               /\ UNCHANGED <<options, i, outcome, probes>>
          ELSE /\ EndOfIteration(res)
               /\ UNCHANGED waits
  /\ UNCHANGED <<run, file, writes, writeLog, exitCode, failures, body,
                 average>>

\* the timer of wait(requestDelay) fires and the loop goes on
DelayElapsed ==
  /\ pc = "delay" /\ ~InTurn
  /\ EndOfIteration(results)
  /\ UNCHANGED <<run, waits, file, writes, writeLog, exitCode, failures,
                 body,
                 average>>

\* `return makeSingleRequest(options)`: the promise of nettime() follows
\* the promise of the probe
ResumeSingle ==
  /\ pc = "single" /\ probes[1].promise # "pending" /\ ~InTurn
  /\ pc' = probes[1].promise
  /\ outcome' = [state |-> probes[1].promise, error |-> probes[1].error,
                 isArray |-> FALSE,
                 results |-> IF probes[1].promise = "resolved"
                             THEN <<probes[1].result>> ELSE <<>>]
  /\ UNCHANGED <<options, i, results, run, waits, probes, file, writes,
                 writeLog, exitCode, failures, body,
                 average>>

(************************* the caller's averaging fold *********************)
\* what the caller reads of a Result: the response's version, code, message
Responses ==
  [httpVersion : {"1.0", "1.1"}, statusCode : {200, 404},
   statusMessage : {"OK", "Not Found"}]

\* the arrays nettime() resolves with when requestCount > 1
RunSets ==
  UNION {[1..n -> Responses] : n \in 2..MaxResults}

NoAverage == [state |-> "none", results |-> <<>>, first |-> 0, later |-> 0,
              result |-> <<>>]

\* the loop of checkStatusCodes from element k on; firstStatusCode is <<>>
\* while undefined
RECURSIVE checkStatusCodesFrom(_, _, _)
checkStatusCodesFrom(rs, k, firstStatusCode) ==
  IF k > Len(rs)
  THEN [thrown |-> FALSE, first |-> 0, later |-> 0]
  ELSE IF firstStatusCode = <<>>
       THEN checkStatusCodesFrom(rs, k + 1, <<rs[k].statusCode>>)
       ELSE IF firstStatusCode[1] # rs[k].statusCode
            THEN [thrown |-> TRUE, first |-> firstStatusCode[1],
                  later |-> rs[k].statusCode]
            ELSE checkStatusCodesFrom(rs, k + 1, firstStatusCode)

\* a check that compares only the last status code with the first
checkStatusCodesLastOnly(rs) ==
  IF rs[Len(rs)].statusCode # rs[1].statusCode
  THEN [thrown |-> TRUE, first |-> rs[1].statusCode,
        later |-> rs[Len(rs)].statusCode]
  ELSE [thrown |-> FALSE, first |-> 0, later |-> 0]

checkStatusCodes(rs) == checkStatusCodesFrom(rs, 1, <<>>)

\* the averaged Result without its timings, which lib/timings computes
createAverageResult(firstResult) ==
  [httpVersion |-> firstResult.httpVersion,
   statusCode |-> firstResult.statusCode,
   statusMessage |-> firstResult.statusMessage]

computeAverageTimings(rs) ==
  LET check == checkStatusCodes(rs) IN
  IF check.thrown
  THEN [state |-> "thrown", results |-> rs, first |-> check.first,
        later |-> check.later, result |-> <<>>]
  ELSE [state |-> "returned", results |-> rs, first |-> 0, later |-> 0,
        result |-> <<createAverageResult(rs[1])>>]

\* `const result = computeAverageTimings(results)` in the caller
ComputeAverage ==
  /\ average.state = "given"
  /\ average' = computeAverageTimings(average.results)
  /\ UNCHANGED <<options, pc, i, results, outcome, run, waits, probes, file,
                 writes, writeLog, exitCode, failures, body>>

(************************* the specification *******************************)
\* failOnOutputFileError is read only when a write to outputFile fails, so
\* it is varied only together with outputFile.  A requestCount of 0 stands
\* for an options object without requestCount.  HTTP/1.0 differs from
\* HTTP/1.1 in the first line of the request only (enforceHTTP10), so runs
\* of several requests are made with '1.1' and '2.0'.
Options ==
  {o \in [httpVersion : HttpVersions, scheme : Schemes, host : {"name"},
          search : {<<>>}, headers : {<<>>}, credentials : {FALSE},
          data : {FALSE},
          requestCount : 0..MaxCount, requestDelay : RequestDelays,
          outputFile : BOOLEAN, includeHeaders : BOOLEAN,
          returnResponse : BOOLEAN, timeout : BOOLEAN,
          failOnOutputFileError : BOOLEAN, appendToOutput : {FALSE}] :
     /\ ~o.outputFile => o.failOnOutputFileError
     /\ o.httpVersion = "1.0" => o.requestCount <= 1}

\* the resource has an empty body or one of MaxChunks chunks
Bodies == {0, MaxChunks}

Init ==
  /\ options \in Options
  /\ pc = "idle"
  /\ i = 0
  /\ results = <<>>
  /\ outcome = Pending
  /\ run = 0
  /\ waits = <<>>
  /\ probes = [p \in Probes |-> FreshProbe]
  /\ file = OldFile
  /\ writes = {}
  /\ writeLog = <<>>
  /\ exitCode = 0
  /\ failures = 0
  /\ body \in Bodies
  /\ average = NoAverage

Next ==
  \/ CallNettime
  \/ Resume
  \/ DelayElapsed
  \/ ResumeSingle
  \/ \E p \in Probes :
       \/ SocketAssigned(p)
       \/ Lookup(p)
       \/ Connect(p)
       \/ SecureConnect(p)
       \/ Response(p)
       \/ \E hasChunk \in BOOLEAN : Readable(p, hasChunk)
       \/ End(p)
       \/ SocketClose(p)
       \/ ClientClosed(p)
       \/ \E err \in TransportErrors : TransportError(p, err)
       \/ Timeout(p)
  \/ \E w \in writes : \E ok \in BOOLEAN : WriteDone(w, ok)

Spec == Init /\ [][Next]_vars

\* Runs that share one options object, for requests with an output file.
ReusedOptions ==
  {o \in Options : /\ o.outputFile /\ ~o.includeHeaders /\ ~o.returnResponse
                   /\ o.timeout /\ o.failOnOutputFileError
                   /\ o.scheme = "https:" /\ o.requestCount >= 1
                   /\ o.httpVersion = "2.0" => o.requestCount = 1}

\* computeAverageTimings is a function of the array it is given alone: it is
\* applied to every array of 2..MaxResults Results, and the state of
\* nettime() is left as Init has it.
AveragedOptions ==
  {o \in Options : /\ o.requestCount = MaxCount /\ o.requestDelay = <<>>
                   /\ o.httpVersion = "1.1" /\ o.scheme = "http:"
                   /\ ~o.outputFile /\ ~o.includeHeaders
                   /\ ~o.returnResponse /\ ~o.timeout}

InitAverage ==
  /\ options \in AveragedOptions
  /\ pc = "idle"
  /\ i = 0
  /\ results = <<>>
  /\ outcome = Pending
  /\ run = 0
  /\ waits = <<>>
  /\ probes = [p \in Probes |-> FreshProbe]
  /\ file = OldFile
  /\ writes = {}
  /\ writeLog = <<>>
  /\ exitCode = 0
  /\ failures = 0
  /\ body = 0
  /\ average \in {[NoAverage EXCEPT !.state = "given", !.results = rs] :
                     rs \in RunSets}

NextAverage == ComputeAverage

SpecAverage == InitAverage /\ [][NextAverage]_vars

\* Requests to a URL that names a host and to a URL that holds an IP
\* address, with an output file and a timeout.
AddressedOptions ==
  {[o EXCEPT !.host = h] :
     o \in {r \in Options : /\ r.outputFile /\ ~r.includeHeaders
                            /\ ~r.returnResponse /\ r.timeout
                            /\ r.failOnOutputFileError
                            /\ r.httpVersion # "1.0"
                            /\ r.requestCount \in {1, MaxCount}
                            /\ r.requestCount > 1 <=> r.requestDelay # <<>>},
     h \in {"name", "address"}}

InitAddress ==
  /\ options \in AddressedOptions
  /\ pc = "idle"
  /\ i = 0
  /\ results = <<>>
  /\ outcome = Pending
  /\ run = 0
  /\ waits = <<>>
  /\ probes = [p \in Probes |-> FreshProbe]
  /\ file = OldFile
  /\ writes = {}
  /\ writeLog = <<>>
  /\ exitCode = 0
  /\ failures = 0
  /\ body \in Bodies
  /\ average = NoAverage

SpecAddress == InitAddress /\ [][Next]_vars

\* Requests whose URL has a query string or none, with or without a
\* headers object, credentials and data to send.
RequestOptions ==
  {[o EXCEPT !.search = q, !.headers = h, !.credentials = c, !.data = d] :
     o \in {r \in Options : /\ r.outputFile /\ ~r.includeHeaders
                            /\ ~r.returnResponse /\ r.timeout
                            /\ r.failOnOutputFileError
                            /\ r.requestCount \in {1, MaxCount}
                            /\ r.requestCount > 1 <=> r.requestDelay # <<>>},
     q \in {<<>>, <<"?q=1">>}, h \in {<<>>, <<{"accept"}>>},
     c \in BOOLEAN, d \in BOOLEAN}

InitRequest ==
  /\ options \in RequestOptions
  /\ pc = "idle"
  /\ i = 0
  /\ results = <<>>
  /\ outcome = Pending
  /\ run = 0
  /\ waits = <<>>
  /\ probes = [p \in Probes |-> FreshProbe]
  /\ file = OldFile
  /\ writes = {}
  /\ writeLog = <<>>
  /\ exitCode = 0
  /\ failures = 0
  /\ body \in Bodies
  /\ average = NoAverage

SpecRequest == InitRequest /\ [][Next]_vars

InitReuse == Init /\ options \in ReusedOptions

NextReuse == Next \/ CallAgain

SpecReuse == InitReuse /\ [][NextReuse]_vars

(************************* the claims **************************************)
Multi == options.requestCount > 1

Started == {p \in Probes : probes[p].started}

InFlight == {p \in Probes : probes[p].started /\ probes[p].promise = "pending"}

\* C1: in a run with requestCount = N > 1 the probes are started one at a
\* time, probe p+1 only after probe p has resolved, never more than N of
\* them, at most one with an unsettled promise; and when the run resolves,
\* exactly N probes were started and the value is the array of their N
\* Results in the order of invocation.
C1_SequentialRun ==
  Multi =>
    /\ \A p \in Started : p > 1 => probes[p - 1].promise = "resolved"
    /\ Cardinality(InFlight) <= 1
    /\ Started \subseteq 1..options.requestCount
    /\ outcome.state = "resolved" =>
         /\ Started = 1..options.requestCount
         /\ outcome.isArray
         /\ Len(outcome.results) = options.requestCount
         /\ \A k \in 1..options.requestCount :
              /\ outcome.results[k] = probes[k].result
              /\ outcome.results[k].probe = k

C1_Witness ==
  /\ options.requestCount = MaxCount
  /\ outcome.state = "resolved"
  /\ Len(outcome.results) = MaxCount

\* C2: with requestCount = N > 1 and a non-zero requestDelay, every wait
\* lasts requestDelay milliseconds, a wait separates each two consecutive
\* probes, and no wait follows the last probe.
C2_NoDelayAfterLastProbe ==
  (Multi /\ Truthy(options.requestDelay)) =>
    /\ \A k \in 1..Len(waits) :
         /\ waits[k].ms = options.requestDelay[1]
         /\ waits[k].after < options.requestCount
    /\ \A p \in Started :
         p > 1 => \E k \in 1..Len(waits) : waits[k].after = p - 1

\* the default of requestDelay that the README and the command line state
DefaultDelay == 100

\* C3: with requestCount > 1 and no requestDelay given, a wait of 100 ms
\* separates each two consecutive probes.
C3_DefaultDelayApplies ==
  (Multi /\ options.requestDelay = <<>>) =>
    \A p \in Started :
      p > 1 => \E k \in 1..Len(waits) :
                 waits[k].after = p - 1 /\ waits[k].ms = DefaultDelay

\* C4: in every run, also one that reuses an options object, the first
\* write of the first probe truncates ('w') and the first write of every
\* later probe appends ('a').  Stated for the probes of the current run
\* whose connection did not fail.
C4_FirstProbeTruncates ==
  \A k \in 1..Len(writeLog) :
    (/\ writeLog[k].run = run /\ writeLog[k].n = 1
     /\ ~probes[writeLog[k].probe].failed) =>
      writeLog[k].flag = (IF writeLog[k].probe = 1 THEN "w" ELSE "a")

\* the block a probe contributes to the output file
Block(p) ==
  (IF options.includeHeaders THEN <<Prolog(p)>> ELSE <<>>) \o probes[p].received

\* C5: after a two-request run that resolved with no failed write, and once
\* every write has completed, the file holds the block of probe 1 followed
\* by the block of probe 2, for every protocol version.
C5_FileIsBlock1Block2 ==
  (/\ options.requestCount = 2 /\ options.outputFile
   /\ outcome.state = "resolved" /\ failures = 0 /\ AllQuiet)
    => file = Block(1) \o Block(2)

\* C6: a probe calls writeFile at most once, for every protocol version.
C6_AtMostOneWritePerProbe ==
  \A p \in Probes : probes[p].nwrites <= 1

\* C7: no write started by a probe is still in flight once a later probe
\* has begun.  Stated for runs in which no write has failed.
C7_NoWriteAcrossProbes ==
  failures = 0 => \A w \in writes : \A p \in Started : p <= w.probe

\* C8: in a multi-request run, once the promise of probe k is rejected no
\* later probe is ever started, the run does not resolve, and when the
\* run's promise is settled it is rejected with the error of probe k and
\* carries no Results.
C8_FailureAbortsRun ==
  Multi =>
    /\ \A k \in Probes :
         probes[k].promise = "rejected" =>
           /\ \A j \in Probes : j > k => ~probes[j].started
           /\ pc \in {"await", "rejected"}
           /\ outcome.state # "resolved"
           /\ outcome.state = "rejected" =>
                outcome.error = probes[k].error /\ outcome.results = <<>>
    /\ outcome.state = "rejected" =>
         \E k \in Probes : probes[k].promise = "rejected"

C8_Witness ==
  /\ Multi
  /\ probes[1].promise = "resolved"
  /\ probes[2].promise = "rejected" /\ probes[2].error = "EWRITE"
  /\ outcome.state = "rejected"

\* C9: a probe with httpVersion '2.0' and a scheme other than 'https:' is
\* rejected with ERR_INSECURE_SCHEME, with no request or connection created
\* and no start time or timing taken.
C9_InsecureSchemeFailsFirst ==
  \A p \in Started :
    (options.httpVersion = "2.0" /\ options.scheme # "https:") =>
      /\ probes[p].promise = "rejected"
      /\ probes[p].error = "ERR_INSECURE_SCHEME"
      /\ ~probes[p].request /\ ~probes[p].socket /\ ~probes[p].start
      /\ probes[p].clock = 0
      /\ \A ph \in Phases : probes[p].timings[ph] = 0

C9_Witness ==
  /\ options.httpVersion = "2.0" /\ options.scheme = "http:"
  /\ probes[1].started
  /\ outcome.state = "rejected" /\ outcome.error = "ERR_INSECURE_SCHEME"

\* C10: once the 'timeout' handler of a probe has run (a timeout is
\* configured and fired before the connection closed), the request is
\* aborted, the probe's promise is rejected with ETIMEDOUT and no Result is
\* delivered, whatever follows.
C10_TimeoutRejects ==
  \A p \in Probes :
    probes[p].timedOut =>
      /\ options.timeout
      /\ probes[p].aborted
      /\ probes[p].promise = "rejected"
      /\ probes[p].error = "ETIMEDOUT"
      /\ probes[p].result = NoResult

C10_Witness ==
  \E p \in Probes :
    /\ probes[p].timedOut /\ probes[p].sockClose
    /\ probes[p].stage = "response"
    /\ outcome.state = "rejected" /\ outcome.error = "ETIMEDOUT"

\* C11: when the request (or the HTTP/2 client) has emitted an error while
\* the probe's promise was pending, the promise is rejected with that very
\* error, the probe has no Result, and nothing is tried again: no later
\* probe of the run is started and the run does not resolve.
C11_ErrorRejectsWithSameError ==
  \A p \in Probes :
    probes[p].emitted # "none" =>
      /\ probes[p].promise = "rejected"
      /\ probes[p].error = probes[p].emitted
      /\ probes[p].result = NoResult
      /\ \A j \in Probes : j > p => ~probes[j].started
      /\ outcome.state # "resolved"
      /\ outcome.state = "rejected" => outcome.error = probes[p].emitted

C11_Witness ==
  /\ probes[1].emitted = "CERT_HAS_EXPIRED"
  /\ probes[1].sockClose
  /\ outcome.state = "rejected" /\ outcome.error = "CERT_HAS_EXPIRED"

\* C12: when a writeFile callback of a probe got an error and the transport
\* of the probe had not failed: unless failOnOutputFileError is false the
\* promise is rejected with the write error and no Result is resolved; if
\* it is false the exit code is 2 and the promise is resolved with the
\* probe's Result.
C12_WriteFailure ==
  \A p \in Probes :
    (probes[p].writeError /\ ~probes[p].failed) =>
      IF options.failOnOutputFileError = FALSE
      THEN /\ exitCode = 2
           /\ probes[p].promise = "resolved"
           /\ probes[p].result # NoResult
      ELSE /\ probes[p].promise = "rejected"
           /\ probes[p].error = "EWRITE"
           /\ probes[p].result = NoResult

\* C13: when requestCount is 1 or absent, nettime() runs exactly one probe,
\* waits for no delay, leaves appendToOutput as the caller passed it, and
\* settles as the probe does: it resolves with the probe's Result itself,
\* not with an array.
C13_SingleRequest ==
  ~Multi =>
    /\ Started \subseteq {1}
    /\ pc # "idle" => probes[1].started
    /\ waits = <<>> /\ pc # "delay"
    /\ options.appendToOutput = FALSE
    /\ outcome.state = "resolved" =>
         /\ ~outcome.isArray
         /\ probes[1].promise = "resolved"
         /\ outcome.results = <<probes[1].result>>
    /\ outcome.state = "rejected" =>
         /\ probes[1].promise = "rejected"
         /\ outcome.error = probes[1].error

C13_Witness ==
  /\ options.requestCount = 1 /\ options.requestDelay # <<>>
  /\ options.outputFile
  /\ outcome.state = "resolved"
  /\ writes = {}

\* C14: the Result of a resolved probe has the field 'headers' exactly when
\* includeHeaders was requested (a response was received), and the field
\* 'response' exactly when returnResponse was requested; and when neither
\* outputFile nor returnResponse is set no probe accumulates body bytes,
\* whatever the response delivers.
C14_OptionalFields ==
  \A p \in Probes :
    /\ probes[p].promise = "resolved" =>
         /\ probes[p].result.hasResponse
         /\ probes[p].result.headers <=> options.includeHeaders
         /\ probes[p].result.hasBody <=> options.returnResponse
         /\ ~probes[p].result.hasBody => probes[p].result.response = <<>>
    /\ (~options.outputFile /\ ~options.returnResponse) =>
         ~probes[p].hasData /\ probes[p].data = <<>>

C14_Witness ==
  /\ options.includeHeaders /\ ~options.returnResponse /\ ~options.outputFile
  /\ probes[1].promise = "resolved"
  /\ probes[1].received # <<>>
  /\ probes[1].result.headers /\ ~probes[1].result.hasBody

\* C15: computeAverageTimings throws exactly when the status code of some
\* Result differs from that of the first Result, and the error then names
\* the first status code and a conflicting one; otherwise it returns one
\* Result with the httpVersion, statusCode and statusMessage of the first
\* Result.
C15_AverageChecksStatusCodes ==
  average.state \in {"thrown", "returned"} =>
    LET rs == average.results
        Conflicting == {k \in 1..Len(rs) : rs[k].statusCode # rs[1].statusCode}
    IN /\ average.state = "thrown" <=> Conflicting # {}
       /\ average.state = "thrown" =>
            /\ average.first = rs[1].statusCode
            /\ average.later \in {rs[k].statusCode : k \in Conflicting}
            /\ average.result = <<>>
       /\ average.state = "returned" =>
            /\ Len(average.result) = 1
            /\ average.result[1].httpVersion = rs[1].httpVersion
            /\ average.result[1].statusCode = rs[1].statusCode
            /\ average.result[1].statusMessage = rs[1].statusMessage

C15_Witness ==
  /\ average.state = "thrown"
  /\ Len(average.results) = 3
  /\ average.results[1].statusCode = 200
  /\ average.results[2].statusCode = 200
  /\ average.results[3].statusCode = 404
  /\ average.first = 200 /\ average.later = 404

\* the structural order of the phases; dnsLookup and tcpConnection share a
\* place
PhaseOrder ==
  [ph \in Phases |->
     CASE ph = "socketOpen" -> 1
       [] ph \in {"dnsLookup", "tcpConnection"} -> 2
       [] ph = "tlsHandshake" -> 3
       [] ph = "firstByte" -> 4
       [] ph = "contentTransfer" -> 5
       [] ph = "socketClose" -> 6]

\* the pairs of a phase and a phase that comes later in that order
Precedes == {ab \in Phases \X Phases : PhaseOrder[ab[1]] < PhaseOrder[ab[2]]}

C17_OptionalPhases ==
  \A p \in Probes :
    /\ probes[p].timings["dnsLookup"] # 0 => probes[p].lookedUp
    /\ options.host = "address" => probes[p].timings["dnsLookup"] = 0
    /\ probes[p].timings["tlsHandshake"] # 0 => probes[p].secured
    /\ options.scheme = "http:" => probes[p].timings["tlsHandshake"] = 0
    /\ (/\ options.host = "name" /\ options.scheme = "https:"
        /\ probes[p].promise = "resolved")
       => /\ probes[p].timings["dnsLookup"] # 0
          /\ probes[p].timings["tlsHandshake"] # 0

C17_Witness ==
  /\ options.host = "address" /\ options.scheme = "https:"
  /\ probes[1].promise = "resolved"
  /\ probes[1].timings["dnsLookup"] = 0
  /\ probes[1].timings["tcpConnection"] # 0
  /\ probes[1].timings["tlsHandshake"] # 0

\* C18: a phase is recorded at most once per probe: once the timings of a
\* probe hold a timestamp for a phase, no step changes that timestamp (the
\* first occurrence of a signal wins).
C18_FirstOccurrenceWins ==
  [][\A p \in Probes : \A ph \in Phases :
       probes[p].timings[ph] # 0 =>
         probes'[p].timings[ph] = probes[p].timings[ph]]_vars

\* C19: once the promise of a probe has resolved, the timings its Result
\* holds are never modified again, whatever signal arrives afterwards.
C19_TimingsFrozenOnceSettled ==
  [][\A p \in Probes :
       probes[p].promise = "resolved" =>
         probes'[p].timings = probes[p].timings]_vars

\* the writeFile calls of probe p whose callback has not run yet
WritesInFlight(p) == {w \in writes : w.probe = p}

Readabled(pr) == pr.received # <<>> \/ pr.eof

\* C21: firstByte is recorded exactly once per probe, by the first
\* 'readable' signal of the response and while the accumulated body is
\* still empty; the timestamp lies before the end of the body, and the
\* 'readable' signals that follow append their chunks to the body (which
\* holds the received chunks until the output file is written).
C21_FirstByteOnce ==
  \A p \in Probes :
    /\ Len(probes[p].firstByteLog) <= 1
    /\ Readabled(probes[p]) <=> Len(probes[p].firstByteLog) = 1
    /\ probes[p].timings["firstByte"] # 0 <=> Readabled(probes[p])
    /\ probes[p].firstByteLog # <<>> => probes[p].firstByteLog[1] = 0
    /\ (probes[p].hasData /\ probes[p].nwrites = 0)
       => probes[p].data = probes[p].received
    /\ (probes[p].timings["firstByte"] # 0
        /\ probes[p].timings["contentTransfer"] # 0)
       => probes[p].timings["firstByte"] < probes[p].timings["contentTransfer"]

C21_Witness ==
  /\ probes[1].hasData
  /\ Len(probes[1].received) = MaxChunks /\ probes[1].eof
  /\ probes[1].data = probes[1].received
  /\ probes[1].firstByteLog = <<0>>
  /\ probes[1].stage = "response"

\* C22: with returnResponse set, the field 'response' of the Result of a
\* resolved probe is the concatenation of the body chunks the response
\* delivered, in their order of arrival, whatever the other options are.
C22_ResponseIsBody ==
  \A p \in Probes :
    (probes[p].promise = "resolved" /\ options.returnResponse) =>
      /\ probes[p].result.hasBody
      /\ probes[p].result.response = probes[p].received

\* C23: no step of nettime() changes the caller's options object or the
\* headers object it references, except that a run with requestCount > 1
\* sets appendToOutput.
C23_OptionsUnchanged ==
  [][/\ [options' EXCEPT !.appendToOutput = options.appendToOutput] = options
     /\ options'.appendToOutput # options.appendToOutput => Multi]_vars

\* C24: for every protocol version, the request target a probe has sent is
\* the URL's path followed by its query string.
C24_TargetIsPathAndQuery ==
  \A p \in Probes :
    probes[p].request => probes[p].target = Pathname \o options.search

\* C25: a probe whose promise was rejected by a transport error or by a
\* timeout calls writeFile never: the socket's 'close' that follows the
\* failure starts no write of the output file.
C25_NoWriteAfterRejection ==
  \A p \in Probes :
    (/\ probes[p].promise = "rejected"
     /\ probes[p].emitted # "none" \/ probes[p].timedOut)
    => probes[p].nwrites = 0

====
